---- MODULE Spec2Model ----
(***************************************************************************)
(* Model of the article versioning and slug-resolution engine of           *)
(* sausagewiki (src/src/state.rs) and of the dispatcher in front of it     *)
(* (src/src/wiki_lookup.rs).  Strings are sequences of one-character       *)
(* strings so that slugify, percent-decoding, the disambiguating suffix,   *)
(* the quoting of search terms and the comparisons of the code are         *)
(* computed character by character.                                        *)
(***************************************************************************)
EXTENDS Integers, Sequences, FiniteSets, TLC

VARIABLES
    articles,           \* table articles: the set of allocated ids
    article_revisions,  \* table article_revisions, in sequence_number order
    result,             \* the last call made on SyncState and what it returned
    pc,                 \* per worker thread: where its closure stands
    req,                \* per worker thread: the call it was given
    conn,               \* per worker thread: its connection's open transaction
    res,                \* per worker thread: what its future resolved to
    idle,               \* number of idle connections in the pool
    writer,             \* the worker whose connection holds the write lock, or 0
    spawned,            \* number of closures given to the worker pool so far
    max_size,           \* number of connections the pool was built with
    query_string,       \* the text given to search_query
    fts_query           \* the FTS query search_query built from it (its local query)

store == <<articles, article_revisions>>
pool == <<pc, req, conn, res, idle, writer, spawned, max_size>>
search == <<query_string, fts_query>>
\* What a step of a worker thread leaves alone.
outside == <<result, max_size, search>>
vars == <<articles, article_revisions, result, pc, req, conn, res, idle, writer, spawned,
          max_size, query_string, fts_query>>

\* ------------------------------------------------------------------ bounds

MaxArticles == 3
MaxRevisions == 3
NumWorkers == 2
MaxCalls == 4
MaxWebRevisions == 2
MaxQueryLen == 4
MaxRenameRevisions == 4

\* ------------------------------------------------------------------ strings

Empty == <<>>

\* Option<T>: None is the empty sequence, Some(x) the one-element sequence.
None == <<>>
Some(x) == <<x>>

LowerCase == {"a", "b", "c", "d", "e", "f", "g", "h", "i", "j", "k", "l", "m",
              "n", "o", "p", "q", "r", "s", "t", "u", "v", "w", "x", "y", "z"}
UpperCase == {"A", "B"}
DigitChars == <<"0", "1", "2", "3", "4", "5", "6", "7", "8", "9">>
DigitSet == {DigitChars[i] : i \in 1..Len(DigitChars)}

to_lowercase(c) == CASE c = "A" -> "a" [] c = "B" -> "b" [] OTHER -> c

\* slug::slugify: letters and digits are kept (upper case lowered), every run
\* of other characters becomes one '-', no leading and no trailing '-'.
RECURSIVE slugify_from(_, _, _, _)
slugify_from(s, i, out, prev_is_dash) ==
    IF i > Len(s)
    THEN IF out # <<>> /\ out[Len(out)] = "-" THEN SubSeq(out, 1, Len(out) - 1) ELSE out
    ELSE LET c == s[i]
         IN IF c \in LowerCase \/ c \in DigitSet
            THEN slugify_from(s, i + 1, Append(out, c), FALSE)
            ELSE IF c \in UpperCase
            THEN slugify_from(s, i + 1, Append(out, to_lowercase(c)), FALSE)
            ELSE IF prev_is_dash
            THEN slugify_from(s, i + 1, out, TRUE)
            ELSE slugify_from(s, i + 1, Append(out, "-"), TRUE)

slugify(s) == slugify_from(s, 1, <<>>, TRUE)

\* format!("{}", n) for n >= 0: the decimal digits of n.
RECURSIVE Decimal(_)
Decimal(n) ==
    IF n < 10 THEN <<DigitChars[n + 1]>>
    ELSE Decimal(n \div 10) \o <<DigitChars[(n % 10) + 1]>>

\* format!("{}-{}", base_slug, disambiguator)
format_slug(base_slug, disambiguator) == base_slug \o <<"-">> \o Decimal(disambiguator)

\* the literal "article" of decide_slug
ArticleFallback == <<"a", "r", "t", "i", "c", "l", "e">>

\* ------------------------------------------------------------------ inputs

Titles ==
    { Empty,
      <<"a">>,
      <<"A">>,
      <<"a", " ", "2">>,
      <<"!">> }

Targets == { None, Some(Empty), Some(<<"a">>) }

\* ------------------------------------------------------------------ store

DB == [articles |-> articles, article_revisions |-> article_revisions]

Indices(db) == 1..Len(db.article_revisions)

Row(db, i) == db.article_revisions[i]

RowsOf(db, article_id) == {i \in Indices(db) : Row(db, i).article_id = article_id}

Max(S) == CHOOSE x \in S : \A y \in S : y <= x
Min(S) == CHOOSE x \in S : \A y \in S : x <= y

\* ------------------------------------------------------------------ decide_slug

\* slug_in_use without .filter(latest.eq(true))
slug_in_use_any_revision(db, article_id, slug) ==
    \E i \in 1..Len(db.article_revisions) :
        /\ db.article_revisions[i].article_id # article_id
        /\ db.article_revisions[i].slug = slug

\* The count query of the loop: some other article's latest revision holds slug.
slug_in_use(db, article_id, slug) ==
    \E i \in Indices(db) :
        /\ Row(db, i).article_id # article_id
        /\ Row(db, i).slug = slug
        /\ Row(db, i).latest

\* The loop of decide_slug, entered with slug and disambiguator.
RECURSIVE disambiguate(_, _, _, _, _)
disambiguate(db, article_id, base_slug, slug, disambiguator) ==
    IF ~slug_in_use(db, article_id, slug)
    THEN slug
    ELSE disambiguate(db, article_id, base_slug,
                      format_slug(base_slug, disambiguator + 1), disambiguator + 1)

\* The number of times the loop of decide_slug runs its count query.
RECURSIVE slug_in_use_checks(_, _, _, _, _)
slug_in_use_checks(db, article_id, base_slug, slug, disambiguator) ==
    IF ~slug_in_use(db, article_id, slug)
    THEN 1
    ELSE 1 + slug_in_use_checks(db, article_id, base_slug,
                                format_slug(base_slug, disambiguator + 1), disambiguator + 1)

\* decide_slug that keeps whatever slug it is given
decide_slug_keeping_prev_slug(db, article_id, prev_title, title, prev_slug) ==
    LET base_slug == slugify(title)
        fallback == IF base_slug = Empty THEN ArticleFallback ELSE base_slug
        derived == disambiguate(db, article_id, fallback, fallback, 1)
    IN IF prev_slug # None THEN prev_slug[1] ELSE derived

\* decide_slug without the title == prev_title test
decide_slug_without_title_test(db, article_id, prev_title, title, prev_slug) ==
    LET base_slug == slugify(title)
        fallback == IF base_slug = Empty THEN ArticleFallback ELSE base_slug
        derived == disambiguate(db, article_id, fallback, fallback, 1)
    IN IF prev_slug # None
       THEN IF prev_slug[1] = Empty THEN Empty
            ELSE IF base_slug = prev_slug[1] THEN base_slug
            ELSE derived
       ELSE derived

\* decide_slug without the "article" fallback for an empty base_slug
decide_slug_without_fallback(db, article_id, prev_title, title, prev_slug) ==
    LET base_slug == slugify(title)
        derived == disambiguate(db, article_id, base_slug, base_slug, 1)
    IN IF prev_slug # None
       THEN IF prev_slug[1] = Empty THEN Empty
            ELSE IF title = prev_title THEN prev_slug[1]
            ELSE IF base_slug = prev_slug[1] THEN base_slug
            ELSE derived
       ELSE derived

\* decide_slug without the front-page test
decide_slug_without_front_page_test(db, article_id, prev_title, title, prev_slug) ==
    LET base_slug == slugify(title)
        fallback == IF base_slug = Empty THEN ArticleFallback ELSE base_slug
        derived == disambiguate(db, article_id, fallback, fallback, 1)
    IN IF prev_slug # None
       THEN IF title = prev_title THEN prev_slug[1]
            ELSE IF base_slug = prev_slug[1] THEN base_slug
            ELSE derived
       ELSE derived

decide_slug(db, article_id, prev_title, title, prev_slug) ==
    LET base_slug == slugify(title)
        fallback == IF base_slug = Empty THEN ArticleFallback ELSE base_slug
        derived == disambiguate(db, article_id, fallback, fallback, 1)
    IN IF prev_slug # None
       THEN IF prev_slug[1] = Empty THEN Empty
            ELSE IF title = prev_title THEN prev_slug[1]
            ELSE IF base_slug = prev_slug[1] THEN base_slug
            ELSE derived
       ELSE derived

\* ------------------------------------------------------------------ results

NoResult == [op |-> "none", kind |-> "None", step |-> "none", article_id |-> 0, revision |-> 0, slug |-> Empty]

Ok(row) ==
    [NoResult EXCEPT !.kind = "Ok", !.article_id = row.article_id,
                     !.revision = row.revision, !.slug = row.slug]

\* Err(..) of the boxed Error type; step names the statement that failed.
Err(step) == [NoResult EXCEPT !.kind = "Err", !.step = step]

\* unimplemented!(..): the worker panics, nothing is returned.
Panic(step) == [NoResult EXCEPT !.kind = "Panic", !.step = step]

Miss == [NoResult EXCEPT !.kind = "Miss"]
Hit(article_id, revision) ==
    [NoResult EXCEPT !.kind = "Hit", !.article_id = article_id, !.revision = revision]
Redirect(slug) == [NoResult EXCEPT !.kind = "Redirect", !.slug = slug]

\* What a closure run inside a transaction leaves: the connection's view of
\* the tables when it returned, and its result.
Outcome(db, value) == [db |-> db, result |-> value]

\* transaction that commits whatever the closure returned
transaction_without_rollback(before, out) == out

\* db_connection.transaction(|| ..): commit on Ok, roll back on Err.  A panic
\* unwinds through it: the transaction is never committed.
transaction(before, out) ==
    IF out.result.kind \in {"Err", "Panic"}
    THEN Outcome(before, out.result)
    ELSE out

\* ------------------------------------------------------------------ reads

\* The body and the author every call is given.
Body == <<"t", "e", "x", "t">>
Author == Some(<<"u">>)

NewRevision(article_id, revision, slug, title) ==
    [article_id |-> article_id, revision |-> revision, slug |-> slug,
     title |-> title, body |-> Body, author |-> Author, latest |-> TRUE]

insert(db, row) ==
    [db EXCEPT !.article_revisions = Append(@, row)]

\* update_article without the UPDATE statement
clear_latest_skipped(db, article_id, base_revision) == db

\* the UPDATE without .filter(article_id.eq(article_id))
clear_latest_any_article(db, article_id, base_revision) ==
    [db EXCEPT !.article_revisions =
        [i \in Indices(db) |->
            IF Row(db, i).revision = base_revision
            THEN [Row(db, i) EXCEPT !.latest = FALSE]
            ELSE Row(db, i)]]

\* diesel::update(rows of article_id with revision = base_revision).set(latest = false)
clear_latest(db, article_id, base_revision) ==
    [db EXCEPT !.article_revisions =
        [i \in Indices(db) |->
            IF Row(db, i).article_id = article_id /\ Row(db, i).revision = base_revision
            THEN [Row(db, i) EXCEPT !.latest = FALSE]
            ELSE Row(db, i)]]

\* .filter(article_id).filter(revision).first(): the first matching row
RevisionRows(db, article_id, revision) ==
    {i \in RowsOf(db, article_id) : Row(db, i).revision = revision}

LatestRows(db, article_id) == {i \in RowsOf(db, article_id) : Row(db, i).latest}

\* get_article_slug without .filter(latest.eq(true))
get_article_slug_any_revision(db, article_id) ==
    IF RowsOf(db, article_id) = {} THEN None
    ELSE Some(Row(db, Min(RowsOf(db, article_id))).slug)

get_article_slug(db, article_id) ==
    IF LatestRows(db, article_id) = {} THEN None
    ELSE Some(Row(db, Min(LatestRows(db, article_id))).slug)

\* Ok(None) and Ok(Some(slug)) of a read.
Absent == [NoResult EXCEPT !.kind = "Absent"]
Found(slug) == [NoResult EXCEPT !.kind = "Some", !.slug = slug]

get_article_revision(db, article_id, revision) ==
    IF RevisionRows(db, article_id, revision) = {} THEN Absent
    ELSE Ok(Row(db, Min(RevisionRows(db, article_id, revision))))

\* The queries f that callers build on the boxed query.
StubFilters == {"all", "latest"}

\* The columns of ArticleRevisionStub: a revision without its body.
ArticleRevisionStub(row) ==
    [article_id |-> row.article_id, revision |-> row.revision, slug |-> row.slug,
     title |-> row.title, latest |-> row.latest, author |-> row.author]

query_article_revision_stubs(db, f) ==
    LET rows == SelectSeq(db.article_revisions, LAMBDA row : f = "all" \/ row.latest)
    IN [op |-> "none", kind |-> "Stubs", step |-> "none", article_id |-> 0, revision |-> 0,
        slug |-> Empty, stubs |-> [i \in 1..Len(rows) |-> ArticleRevisionStub(rows[i])]]

SlugRows(db, slug) == {i \in Indices(db) : Row(db, i).slug = slug}

\* lookup_slug that takes the most recent row for a hit without reading latest
lookup_slug_ignoring_latest(db, slug) ==
    IF SlugRows(db, slug) = {} THEN Miss
    ELSE Hit(Row(db, Max(SlugRows(db, slug))).article_id,
             Row(db, Max(SlugRows(db, slug))).revision)

lookup_slug(db, slug) ==
    IF SlugRows(db, slug) = {} THEN Miss
    ELSE LET stub == Row(db, Max(SlugRows(db, slug)))
         IN IF stub.latest THEN Hit(stub.article_id, stub.revision)
            ELSE IF LatestRows(db, stub.article_id) = {} THEN Err("redirect")
            ELSE Redirect(Row(db, Min(LatestRows(db, stub.article_id))).slug)

\* ------------------------------------------------------------------ writes

update_closure(db, article_id, base_revision, title, fail) ==
    IF fail = "read" \/ RowsOf(db, article_id) = {} THEN Outcome(db, Err("read"))
    ELSE
    LET latest_revision == Max({Row(db, i).revision : i \in RowsOf(db, article_id)})
        prev == Row(db, Min(RevisionRows(db, article_id, latest_revision)))
        new_revision == base_revision + 1
        slug == decide_slug(db, article_id, prev.title, title, Some(prev.slug))
        flipped == clear_latest(db, article_id, base_revision)
        inserted == insert(flipped, NewRevision(article_id, new_revision, slug, title))
    IN IF latest_revision # base_revision THEN Outcome(db, Panic("conflict"))
       ELSE IF fail = "decide" THEN Outcome(db, Err("decide"))
       ELSE IF fail = "flip" THEN Outcome(db, Err("flip"))
       ELSE IF fail = "insert" THEN Outcome(flipped, Err("insert"))
       ELSE IF fail = "reread" THEN Outcome(inserted, Err("reread"))
       ELSE Outcome(inserted,
                    Ok(Row(inserted, Min(RevisionRows(inserted, article_id, new_revision)))))

\* update_article without the title.is_empty() test
update_article_without_title_test(db, article_id, base_revision, title, fail) ==
    transaction(db, update_closure(db, article_id, base_revision, title, fail))

update_article(db, article_id, base_revision, title, fail) ==
    IF title = Empty THEN Outcome(db, Err("title"))
    ELSE transaction(db, update_closure(db, article_id, base_revision, title, fail))

\* INSERT INTO articles VALUES (null); SELECT LAST_INSERT_ROWID()
last_insert_rowid(db) == IF db.articles = {} THEN 1 ELSE Max(db.articles) + 1

create_closure(db, target_slug, title, fail) ==
    LET article_id == last_insert_rowid(db)
        allocated == [db EXCEPT !.articles = @ \cup {article_id}]
        slug == decide_slug(allocated, article_id, Empty, title, target_slug)
        new_revision == 1
        inserted == insert(allocated, NewRevision(article_id, new_revision, slug, title))
    IN IF fail = "alloc" THEN Outcome(db, Err("alloc"))
       ELSE IF fail = "rowid" THEN Outcome(allocated, Err("rowid"))
       ELSE IF fail = "decide" THEN Outcome(allocated, Err("decide"))
       ELSE IF fail = "insert" THEN Outcome(allocated, Err("insert"))
       ELSE IF fail = "reread" THEN Outcome(inserted, Err("reread"))
       ELSE Outcome(inserted,
                    Ok(Row(inserted, Min(RevisionRows(inserted, article_id, new_revision)))))

create_article(db, target_slug, title, fail) ==
    IF title = Empty THEN Outcome(db, Err("title"))
    ELSE transaction(db, create_closure(db, target_slug, title, fail))

\* ------------------------------------------------------------------ actions

UpdateFails == {"none", "read", "decide", "flip", "insert", "reread"}
CreateFails == {"none", "alloc", "rowid", "decide", "insert", "reread"}

Workers == 1..NumWorkers

\* One connection per worker thread.
PoolSize == NumWorkers

NoDb == [articles |-> {}, article_revisions |-> <<>>]

\* A connection with no transaction open.
NoTransaction == [snap |-> NoDb, view |-> NoDb, slug |-> Empty, article_id |-> 0]

\* A call given to State; serial numbers the calls, during holds the serials
\* of the calls that were in flight on other workers when it was given.
NoRequest == [op |-> "none", article_id |-> 0, base_revision |-> 0, title |-> Empty,
              target_slug |-> None, slug |-> Empty, serial |-> 0, during |-> {}]

\* State::new(connection_pool, cpu_pool) with a pool of size connections.
PoolInit(size) ==
    /\ pc = [w \in Workers |-> "idle"]
    /\ req = [w \in Workers |-> NoRequest]
    /\ conn = [w \in Workers |-> NoTransaction]
    /\ res = [w \in Workers |-> NoResult]
    /\ max_size = size
    /\ idle = size
    /\ writer = 0
    /\ spawned = 0

\* An empty database and nothing called yet.
StoreInit ==
    /\ articles = {}
    /\ article_revisions = <<>>
    /\ result = NoResult
    /\ query_string = Empty
    /\ fts_query = Empty

Init ==
    /\ StoreInit
    /\ PoolInit(PoolSize)

\* The call returns: the connection's committed tables and the value returned.
Return(op, out) ==
    /\ articles' = out.db.articles
    /\ article_revisions' = out.db.article_revisions
    /\ result' = [out.result EXCEPT !.op = op]
    /\ UNCHANGED <<pool, search>>

CreateArticle ==
    \E target_slug \in Targets, title \in Titles, fail \in CreateFails :
        /\ Cardinality(articles) < MaxArticles
        /\ Len(article_revisions) < MaxRevisions
        /\ Return("create_article", create_article(DB, target_slug, title, fail))

\* The base_revision a client sends: a revision of the article it has seen.
BaseRevisions(db, article_id) ==
    {1} \cup {Row(db, i).revision : i \in RowsOf(db, article_id)}

UpdateArticle ==
    \E article_id \in articles \cup {last_insert_rowid(DB)},
       title \in Titles, fail \in UpdateFails :
      \E base_revision \in BaseRevisions(DB, article_id) :
        /\ Len(article_revisions) < MaxRevisions
        /\ Return("update_article",
                  update_article(DB, article_id, base_revision, title, fail))

StoredSlugs(db) == {Row(db, i).slug : i \in Indices(db)}

Unused == <<"b">>

LookupSlug ==
    \E slug \in StoredSlugs(DB) \cup {Unused}, fail \in {"none", "lookup"} :
        Return("lookup_slug",
               Outcome(DB, IF fail = "lookup" THEN Err("lookup") ELSE lookup_slug(DB, slug)))

Next == CreateArticle \/ UpdateArticle \/ LookupSlug

Spec == Init /\ [][Next]_vars

\* The other reads of SyncState, next to the writes.
GetArticleSlug ==
    \E article_id \in articles \cup {0, last_insert_rowid(DB)}, fail \in {"none", "get"} :
        Return("get_article_slug",
               Outcome(DB, IF fail = "get" THEN Err("get")
                           ELSE IF get_article_slug(DB, article_id) = None THEN Absent
                           ELSE [Found(get_article_slug(DB, article_id)[1])
                                    EXCEPT !.article_id = article_id]))

GetArticleRevision ==
    \E article_id \in articles \cup {last_insert_rowid(DB)}, revision \in 1..MaxRevisions,
       fail \in {"none", "get"} :
        Return("get_article_revision",
               Outcome(DB, IF fail = "get" THEN Err("get")
                           ELSE get_article_revision(DB, article_id, revision)))

QueryArticleRevisionStubs ==
    \E f \in StubFilters, fail \in {"none", "load"} :
        Return("query_article_revision_stubs",
               Outcome(DB, IF fail = "load" THEN Err("load")
                           ELSE query_article_revision_stubs(DB, f)))

\* ------------------------------------------------------------------ worker pool

\* The calls given to State: creations, edits of article 1 and lookups.
PoolRequests ==
    {[NoRequest EXCEPT !.op = "create_article", !.title = <<"a">>]}
    \cup {[NoRequest EXCEPT !.op = "update_article", !.article_id = 1,
                            !.base_revision = b, !.title = t] :
            b \in 1..2, t \in {<<"A">>, <<"!">>}}
    \cup {[NoRequest EXCEPT !.op = "create_article", !.title = <<"a">>,
                            !.target_slug = Some(<<"a">>)]}
    \cup {[NoRequest EXCEPT !.op = "lookup_slug", !.slug = <<"a">>]}

\* State::execute: cpu_pool.spawn_fn hands the closure to a worker thread.
Spawn(w) ==
    /\ pc[w] = "idle"
    /\ spawned < MaxCalls
    /\ \E r \in PoolRequests :
        /\ req' = [req EXCEPT ![w] =
                    [r EXCEPT !.serial = spawned + 1,
                              !.during = {req[v].serial : v \in {u \in Workers : pc[u] # "idle"}}]]
        /\ r.op # "lookup_slug" => Len(article_revisions) < MaxRevisions
    /\ pc' = [pc EXCEPT ![w] = "get"]
    /\ res' = [res EXCEPT ![w] = NoResult]
    /\ spawned' = spawned + 1
    /\ UNCHANGED <<articles, article_revisions, outside, conn, idle, writer>>

\* connection_pool.get()?: waits for an idle connection.
GetConnection(w) ==
    /\ pc[w] = "get"
    /\ idle > 0
    /\ idle' = idle - 1
    /\ pc' = [pc EXCEPT ![w] = "start"]
    /\ UNCHANGED <<articles, article_revisions, outside, req, conn, res, writer, spawned>>

\* connection_pool.get()?: no connection became idle in time; the ? returns
\* the pool's error and the closure ends without a connection.
GetTimeout(w) ==
    /\ pc[w] = "get"
    /\ idle = 0
    /\ pc' = [pc EXCEPT ![w] = "idle"]
    /\ res' = [res EXCEPT ![w] = [Err("pool") EXCEPT !.op = req[w].op]]
    /\ UNCHANGED <<articles, article_revisions, outside, req, conn, idle, writer, spawned>>

\* The closure returns and the pooled connection is never dropped.
ResolveWithoutDrop(w, value) ==
    /\ pc' = [pc EXCEPT ![w] = "idle"]
    /\ res' = [res EXCEPT ![w] = [value EXCEPT !.op = req[w].op]]
    /\ conn' = [conn EXCEPT ![w] = NoTransaction]
    /\ writer' = IF writer = w THEN 0 ELSE writer
    /\ idle' = IF value.kind = "Panic" THEN idle ELSE idle + 1
    /\ UNCHANGED <<outside, req, spawned>>

\* The closure returns (or unwinds): its transaction is over, the pooled
\* connection is dropped back into the pool and the future resolves.
Resolve(w, value) ==
    /\ pc' = [pc EXCEPT ![w] = "idle"]
    /\ res' = [res EXCEPT ![w] = [value EXCEPT !.op = req[w].op]]
    /\ conn' = [conn EXCEPT ![w] = NoTransaction]
    /\ writer' = IF writer = w THEN 0 ELSE writer
    /\ idle' = idle + 1
    /\ UNCHANGED <<outside, req, spawned>>

\* A statement of w's transaction that writes needs the database's write
\* lock: no other connection holds it and, if the transaction has read
\* already, nothing was committed since (otherwise the statement fails).
MayWrite(w, snap) == writer \in {0, w} /\ snap = DB

\* update_article up to decide_slug: the reads of the transaction.
UpdateRead(w) ==
    /\ pc[w] = "start"
    /\ req[w].op = "update_article"
    /\ UNCHANGED <<articles, article_revisions>>
    /\ LET r == req[w]
           rows == RowsOf(DB, r.article_id)
       IN IF r.title = Empty THEN Resolve(w, Err("title"))
          ELSE IF rows = {} THEN Resolve(w, Err("read"))
          ELSE LET latest_revision == Max({Row(DB, i).revision : i \in rows})
                   prev == Row(DB, Min(RevisionRows(DB, r.article_id, latest_revision)))
               IN IF latest_revision # r.base_revision
                  THEN Resolve(w, Panic("conflict"))
                  ELSE /\ conn' = [conn EXCEPT ![w] =
                               [snap |-> DB, view |-> DB,
                                slug |-> decide_slug(DB, r.article_id, prev.title,
                                                     r.title, Some(prev.slug)),
                                article_id |-> r.article_id]]
                       /\ pc' = [pc EXCEPT ![w] = "flip"]
                       /\ UNCHANGED <<outside, req, res, idle, writer, spawned>>

\* update_article: the UPDATE that clears the old latest flag.
UpdateFlip(w) ==
    /\ pc[w] = "flip"
    /\ UNCHANGED <<articles, article_revisions>>
    /\ IF MayWrite(w, conn[w].snap)
       THEN /\ writer' = w
            /\ conn' = [conn EXCEPT ![w].view =
                            clear_latest(@, req[w].article_id, req[w].base_revision)]
            /\ pc' = [pc EXCEPT ![w] = "insert"]
            /\ UNCHANGED <<outside, req, res, idle, spawned>>
       ELSE Resolve(w, Err("busy"))

\* create_article up to LAST_INSERT_ROWID(): the INSERT INTO articles.
CreateAllocate(w) ==
    /\ pc[w] = "start"
    /\ req[w].op = "create_article"
    /\ UNCHANGED <<articles, article_revisions>>
    /\ IF req[w].title = Empty THEN Resolve(w, Err("title"))
       ELSE IF ~MayWrite(w, DB) THEN Resolve(w, Err("busy"))
       ELSE /\ writer' = w
            /\ conn' = [conn EXCEPT ![w] =
                    [snap |-> DB,
                     view |-> [DB EXCEPT !.articles = @ \cup {last_insert_rowid(DB)}],
                     slug |-> Empty,
                     article_id |-> last_insert_rowid(DB)]]
            /\ pc' = [pc EXCEPT ![w] = "decide"]
            /\ UNCHANGED <<outside, req, res, idle, spawned>>

\* create_article: decide_slug inside the transaction.
CreateDecide(w) ==
    /\ pc[w] = "decide"
    /\ conn' = [conn EXCEPT ![w].slug =
                    decide_slug(conn[w].view, conn[w].article_id, Empty,
                                req[w].title, req[w].target_slug)]
    /\ pc' = [pc EXCEPT ![w] = "insert"]
    /\ UNCHANGED <<articles, article_revisions, outside, req, res, idle, writer, spawned>>

\* The revision number the transaction inserts.
new_revision(r) == IF r.op = "create_article" THEN 1 ELSE r.base_revision + 1

\* diesel::insert(&NewRevision {..}) of either handler.
InsertRevision(w) ==
    /\ pc[w] = "insert"
    /\ conn' = [conn EXCEPT ![w].view =
                    insert(@, NewRevision(conn[w].article_id, new_revision(req[w]),
                                          conn[w].slug, req[w].title))]
    /\ pc' = [pc EXCEPT ![w] = "reread"]
    /\ UNCHANGED <<articles, article_revisions, outside, req, res, idle, writer, spawned>>

\* The closing query of either handler, then the commit of the transaction.
RereadCommit(w) ==
    /\ pc[w] = "reread"
    /\ articles' = conn[w].view.articles
    /\ article_revisions' = conn[w].view.article_revisions
    /\ Resolve(w, Ok(Row(conn[w].view,
                         Min(RevisionRows(conn[w].view, conn[w].article_id,
                                          new_revision(req[w]))))))

\* Any statement of an open transaction may fail: the ? returns the error
\* and the transaction is rolled back.
StatementFails(w) ==
    /\ pc[w] \in {"flip", "decide", "insert", "reread", "redirect"}
    /\ UNCHANGED <<articles, article_revisions>>
    /\ Resolve(w, Err("statement"))

\* lookup_slug: the first query of its transaction.
LookupFirst(w) ==
    /\ pc[w] = "start"
    /\ req[w].op = "lookup_slug"
    /\ UNCHANGED <<articles, article_revisions>>
    /\ IF lookup_slug(DB, req[w].slug).kind \in {"Miss", "Hit"}
       THEN Resolve(w, lookup_slug(DB, req[w].slug))
       ELSE /\ conn' = [conn EXCEPT ![w] = [NoTransaction EXCEPT !.snap = DB, !.view = DB]]
            /\ pc' = [pc EXCEPT ![w] = "redirect"]
            /\ UNCHANGED <<outside, req, res, idle, writer, spawned>>

\* lookup_slug: the second query, on the transaction's view of the tables.
LookupRedirect(w) ==
    /\ pc[w] = "redirect"
    /\ UNCHANGED <<articles, article_revisions>>
    /\ Resolve(w, lookup_slug(conn[w].view, req[w].slug))

PoolNext ==
    \E w \in Workers :
        \/ Spawn(w)
        \/ GetConnection(w)
        \/ GetTimeout(w)
        \/ UpdateRead(w)
        \/ UpdateFlip(w)
        \/ CreateAllocate(w)
        \/ CreateDecide(w)
        \/ InsertRevision(w)
        \/ RereadCommit(w)
        \/ StatementFails(w)
        \/ LookupFirst(w)
        \/ LookupRedirect(w)

\* The pool is built outside this code, with any number of connections.
InitPool ==
    /\ StoreInit
    /\ \E size \in 1..PoolSize : PoolInit(size)

SpecPool == InitPool /\ [][PoolNext]_vars

\* What a worker thread does with the closure it was given.
WorkerStep(w) ==
    \/ GetConnection(w)
    \/ GetTimeout(w)
    \/ UpdateRead(w)
    \/ UpdateFlip(w)
    \/ CreateAllocate(w)
    \/ CreateDecide(w)
    \/ InsertRevision(w)
    \/ RereadCommit(w)
    \/ StatementFails(w)
    \/ LookupFirst(w)
    \/ LookupRedirect(w)

\* Each thread of the CpuPool keeps running the closure it has taken.
SpecPoolFair == SpecPool /\ \A w \in Workers : WF_vars(WorkerStep(w))

\* ------------------------------------------------------------------ dispatcher
\* WikiLookup (src/src/wiki_lookup.rs): from a request path and query string
\* to the resource that serves it.

\* A byte that is no UTF-8 text on its own.
InvalidByte == "\\xFF"

HexDigits == DigitSet \cup {"A", "B", "C", "D", "E", "F", "a", "b", "c", "d", "e", "f"}

\* The ASCII characters the escapes of Paths stand for.
AsciiBytes ==
    (<<"2", "0">> :> " ") @@ (<<"4", "1">> :> "A") @@ (<<"5", "F">> :> "_") @@ (<<"2", "F">> :> "/")

\* The byte of the escape %hl; a byte of 0x80 and above is, on its own, not
\* UTF-8 text.
from_hex(h, l) ==
    IF h \in DigitSet \ {"8", "9"} THEN AsciiBytes[<<h, l>>] ELSE InvalidByte

\* percent_encoding::percent_decode: %hl with two hex digits becomes one
\* byte, everything else is copied.
RECURSIVE percent_decode_from(_, _, _)
percent_decode_from(s, i, out) ==
    IF i > Len(s) THEN out
    ELSE IF s[i] = "%" /\ i + 2 <= Len(s) /\ s[i + 1] \in HexDigits /\ s[i + 2] \in HexDigits
    THEN percent_decode_from(s, i + 3, Append(out, from_hex(s[i + 1], s[i + 2])))
    ELSE percent_decode_from(s, i + 1, Append(out, s[i]))

percent_decode(s) == percent_decode_from(s, 1, <<>>)

\* decode_utf8(): Ok(text) or Err(Utf8Error)
decode_utf8(bytes) ==
    [ok |-> \A i \in 1..Len(bytes) : bytes[i] # InvalidByte, text |-> bytes]

\* Position of the first '/' of path, 0 if it has none.
first_slash(path) ==
    LET S == {i \in 1..Len(path) : path[i] = "/"}
    IN IF S = {} THEN 0 ELSE Min(S)

\* split_one: path.splitn(2, '/'), the head percent-decoded.
split_one(path) ==
    LET k == first_slash(path)
        head == decode_utf8(percent_decode(IF k = 0 THEN path ELSE SubSeq(path, 1, k - 1)))
    IN [ok |-> head.ok, head |-> head.text,
        tail |-> IF k = 0 THEN None ELSE Some(SubSeq(path, k + 1, Len(path)))]

\* The checksums in the names of the generated assets.
StyleChecksum == <<"c", "1">>
ScriptChecksum == <<"c", "2">>

StyleCss == <<"s", "t", "y", "l", "e", "-">> \o StyleChecksum \o <<".", "c", "s", "s">>
ScriptJs == <<"s", "c", "r", "i", "p", "t", "-">> \o ScriptChecksum \o <<".", "j", "s">>
AmaticFont == <<"a", "m", "a", "t", "i", "c", "-", "s", "c", "-", "v", "9", "-", "l", "a", "t", "i", "n", "-", "r", "e", "g", "u", "l", "a", "r", ".", "w", "o", "f", "f">>

ASSETS_MAP == {StyleCss, ScriptJs, AmaticFont}

\* What lookup gives back: Ok(None), Ok(Some(resource)) or an error.  lookups
\* counts the calls of State::lookup_slug made on the way.
NoResource ==
    [op |-> "lookup", kind |-> "NotFound", step |-> "none", article_id |-> 0, revision |-> 0,
     slug |-> Empty, target_slug |-> None, edit |-> FALSE, lookups |-> 0]

NotFound == NoResource
Failed(step) == [NoResource EXCEPT !.kind = "Err", !.step = step]
Asset(name) == [NoResource EXCEPT !.kind = "Asset", !.slug = name]
ChangesResource == [NoResource EXCEPT !.kind = "ChangesResource"]
SitemapResource == [NoResource EXCEPT !.kind = "SitemapResource"]
NewArticleResource(slug) == [NoResource EXCEPT !.kind = "NewArticleResource", !.target_slug = slug]
ArticleRedirectResource(slug) == [NoResource EXCEPT !.kind = "ArticleRedirectResource", !.slug = slug]
ArticleResource(article_id, revision, edit) ==
    [NoResource EXCEPT !.kind = "ArticleResource", !.article_id = article_id,
                       !.revision = revision, !.edit = edit]

\* asset_lookup that serves the asset whatever follows its name
asset_lookup_ignoring_tail(path) ==
    LET x == split_one(path)
    IN IF ~x.ok THEN Failed("utf8")
       ELSE IF x.head \in ASSETS_MAP THEN Asset(x.head)
       ELSE NotFound

asset_lookup(path) ==
    LET x == split_one(path)
    IN IF ~x.ok THEN Failed("utf8")
       ELSE IF x.tail # None THEN NotFound
       ELSE IF x.head \in ASSETS_MAP THEN Asset(x.head)
       ELSE NotFound

AssetsName == <<"_", "a", "s", "s", "e", "t", "s">>
ChangesName == <<"_", "c", "h", "a", "n", "g", "e", "s">>
NewName == <<"_", "n", "e", "w">>
SitemapName == <<"_", "s", "i", "t", "e", "m", "a", "p">>
EditQuery == <<"e", "d", "i", "t">>

\* What can go wrong below the dispatcher: State::lookup_slug, and the
\* pagination and the ChangesResource built for _changes.
LookupFails == {"none", "lookup_slug", "changes"}

reserved_lookup(db, path, query, fail) ==
    LET x == split_one(path)
    IN IF ~x.ok THEN Failed("utf8")
       ELSE IF x.head = AssetsName /\ x.tail # None THEN asset_lookup(x.tail[1])
       ELSE IF x.head = ChangesName /\ x.tail = None
       THEN IF fail = "changes" THEN Failed("changes") ELSE ChangesResource
       ELSE IF x.head = NewName /\ x.tail = None THEN NewArticleResource(None)
       ELSE IF x.head = SitemapName /\ x.tail = None THEN SitemapResource
       ELSE NotFound

\* What article_lookup makes of the answer of State::lookup_slug.
article_resource(db, slug, edit, fail) ==
    LET x == lookup_slug(db, slug)
        resource == IF fail = "lookup_slug" THEN Failed("lookup_slug")
                    ELSE IF x.kind = "Miss" THEN NewArticleResource(Some(slug))
                    ELSE IF x.kind = "Hit" THEN ArticleResource(x.article_id, x.revision, edit)
                    ELSE ArticleRedirectResource(x.slug)
    IN [resource EXCEPT !.lookups = 1]

\* article_lookup without the normalizing redirect
article_lookup_without_normalization(db, path, query, fail) ==
    LET x == split_one(path)
    IN IF ~x.ok THEN Failed("utf8")
       ELSE IF x.tail # None THEN NotFound
       ELSE article_resource(db, x.head, query = Some(EditQuery), fail)

\* article_lookup with the edit flag set by any query string
article_lookup_edit_on_any_query(db, path, query, fail) ==
    LET x == split_one(path)
        slugified_slug == slugify(x.head)
    IN IF ~x.ok THEN Failed("utf8")
       ELSE IF x.tail # None THEN NotFound
       ELSE IF slugified_slug # x.head THEN ArticleRedirectResource(slugified_slug)
       ELSE article_resource(db, x.head, query # None, fail)

article_lookup(db, path, query, fail) ==
    LET x == split_one(path)
        slugified_slug == slugify(x.head)
    IN IF ~x.ok THEN Failed("utf8")
       ELSE IF x.tail # None THEN NotFound
       ELSE IF slugified_slug # x.head THEN ArticleRedirectResource(slugified_slug)
       ELSE article_resource(db, x.head, query = Some(EditQuery), fail)

\* Lookup::lookup; path starts with "/".
lookup(db, path, query, fail) ==
    LET rest == SubSeq(path, 2, Len(path))
    IN IF rest # <<>> /\ rest[1] = "_"
       THEN reserved_lookup(db, rest, query, fail)
       ELSE article_lookup(db, rest, query, fail)

\* First segments of request paths, as they arrive (still percent-encoded).
ArticleHeads ==
    {Empty, <<"a">>, <<"A">>, ArticleFallback, <<"a", "%", "2", "0", "2">>, <<"%", "F", "F">>,
     <<"%", "5", "F", "n", "e", "w">>}
ReservedHeads == {ChangesName, NewName, SitemapName, AssetsName, <<"_", "a">>, <<"_", "%", "F", "F">>}

Paths ==
    {<<"/">> \o h : h \in ArticleHeads \cup ReservedHeads}
    \cup {<<"/">> \o h \o <<"/">> \o t :
            h \in ArticleHeads \cup ReservedHeads, t \in {<<"a">>}}
    \cup {<<"/">> \o h \o <<"/">> : h \in {<<"a">>, NewName, AssetsName}}
    \cup {<<"/">> \o AssetsName \o <<"/">> \o t :
            t \in ASSETS_MAP \cup {AmaticFont \o <<"/", "a">>, <<"%", "F", "F">>}}

Queries == {None, Some(EditQuery), Some(EditQuery \o <<"s">>)}

\* A request reaches the dispatcher.
Lookup ==
    \E path \in Paths, query \in Queries, fail \in LookupFails :
        /\ result' = lookup(DB, path, query, fail)
        /\ UNCHANGED <<store, pool, search>>

\* NewArticleResource::put: the resource the dispatcher gave creates the
\* article under the slug it was seeded with; the resource keeps that slug.
PutNewArticle ==
    \E title \in Titles, fail \in CreateFails :
        /\ result.kind = "NewArticleResource"
        /\ Len(article_revisions) < MaxWebRevisions
        /\ LET out == create_article(DB, result.target_slug, title, fail)
           IN /\ articles' = out.db.articles
              /\ article_revisions' = out.db.article_revisions
              /\ result' = [result EXCEPT !.op = "create_article",
                                          !.kind = out.result.kind,
                                          !.step = out.result.step,
                                          !.article_id = out.result.article_id,
                                          !.revision = out.result.revision,
                                          !.slug = out.result.slug]
        /\ UNCHANGED <<pool, search>>

\* State::update_article, called for an article that is being served.
WebUpdateArticle ==
    \E article_id \in articles, title \in Titles, fail \in UpdateFails :
      \E base_revision \in BaseRevisions(DB, article_id) :
        /\ Len(article_revisions) < MaxWebRevisions
        /\ Return("update_article", update_article(DB, article_id, base_revision, title, fail))

WebNext == Lookup \/ PutNewArticle \/ WebUpdateArticle

SpecWeb == Init /\ [][WebNext]_vars

\* ------------------------------------------------------------------ search
\* SyncState::search_query (src/src/state.rs): the FTS query built from the
\* text the user typed.  The SELECT that runs it is the store's.

Quote == "\""
WhiteSpace == {" ", "\t", "\n"}

\* str::replace('\"', "\"\"")
RECURSIVE replace_quotes(_)
replace_quotes(src) ==
    IF src = <<>> THEN <<>>
    ELSE (IF Head(src) = Quote THEN <<Quote, Quote>> ELSE <<Head(src)>>)
         \o replace_quotes(Tail(src))

\* fts_quote without the doubling of the quotes
fts_quote_without_doubling(src) == <<Quote>> \o src \o <<Quote>>

\* format!("\"{}\"", src.replace('\"', "\"\""))
fts_quote(src) == <<Quote>> \o replace_quotes(src) \o <<Quote>>

\* str::split_whitespace: the maximal runs of non-whitespace characters.
RECURSIVE split_whitespace_from(_, _, _, _)
split_whitespace_from(s, i, word, words) ==
    IF i > Len(s) THEN IF word = <<>> THEN words ELSE Append(words, word)
    ELSE IF s[i] \in WhiteSpace
    THEN split_whitespace_from(s, i + 1, <<>>,
                               IF word = <<>> THEN words ELSE Append(words, word))
    ELSE split_whitespace_from(s, i + 1, Append(word, s[i]), words)

split_whitespace(s) == split_whitespace_from(s, 1, <<>>, <<>>)

\* words.join(" ")
RECURSIVE join(_, _)
join(words, sep) ==
    IF words = <<>> THEN <<>>
    ELSE IF Len(words) = 1 THEN words[1]
    ELSE words[1] \o sep \o join(Tail(words), sep)

NearOpen == <<"N", "E", "A", "R", "(">>

\* The local query of search_query.
search_query(query_string_) ==
    LET split == split_whitespace(query_string_)
        words == [i \in 1..Len(split) |-> fts_quote(split[i])]
    IN IF Len(words) > 1 THEN NearOpen \o join(words, <<" ">>) \o <<")">>
       ELSE IF Len(words) = 1 THEN words[1] \o <<"*">>
       ELSE <<Quote, Quote>>

\* The texts typed into the search box.
SearchChars == {"a", "b", " ", Quote}
RECURSIVE StringsUpTo(_)
StringsUpTo(n) ==
    IF n = 0 THEN {<<>>}
    ELSE StringsUpTo(n - 1) \cup {Append(t, c) : t \in StringsUpTo(n - 1), c \in SearchChars}

QueryStrings == StringsUpTo(MaxQueryLen)

SearchQuery ==
    \E q \in QueryStrings :
        /\ query_string' = q
        /\ fts_query' = search_query(q)
        /\ UNCHANGED <<store, result, pool>>

SearchNext == SearchQuery

SpecSearch == Init /\ [][SearchNext]_vars

\* ------------------------------------------------------------------ writes and reads

\* The text searched for next to the writes.
SearchedFor == {<<"a">>}

\* SyncState::search_query: builds the query and runs a SELECT.
SearchArticles ==
    \E q \in SearchedFor :
        /\ query_string' = q
        /\ fts_query' = search_query(q)
        /\ UNCHANGED <<store, result, pool>>

ReadsNext ==
    \/ CreateArticle
    \/ UpdateArticle
    \/ LookupSlug
    \/ GetArticleSlug
    \/ GetArticleRevision
    \/ QueryArticleRevisionStubs
    \/ SearchArticles

SpecReads == Init /\ [][ReadsNext]_vars

\* Renames and creations under a requested slug, followed through lookup_slug.
RenameTitles == {<<"!">>, <<"a">>, <<"a", " ", "2">>}
RenameTargets == {None, Some(<<"a">>)}

CreateNamed ==
    \E target_slug \in RenameTargets, title \in RenameTitles :
        /\ Cardinality(articles) < MaxArticles
        /\ Len(article_revisions) < MaxRenameRevisions
        /\ Return("create_article", create_article(DB, target_slug, title, "none"))

Rename ==
    \E article_id \in articles, title \in RenameTitles :
      \E base_revision \in BaseRevisions(DB, article_id) :
        /\ Len(article_revisions) < MaxRenameRevisions
        /\ Return("update_article",
                  update_article(DB, article_id, base_revision, title, "none"))

FollowSlug ==
    \E slug \in StoredSlugs(DB) \cup {Unused} :
        Return("lookup_slug", Outcome(DB, lookup_slug(DB, slug)))

RenamesNext == CreateNamed \/ Rename \/ FollowSlug

SpecRenames == Init /\ [][RenamesNext]_vars

\* ------------------------------------------------------------------ properties

DBnext == [articles |-> articles', article_revisions |-> article_revisions']

ArticleIds(db) == db.articles \cup {Row(db, i).article_id : i \in Indices(db)}

Revisions(db, article_id) == {Row(db, i).revision : i \in RowsOf(db, article_id)}

LatestRevision(db, article_id) == Max(Revisions(db, article_id))

\* The slug of the article's latest revision (the article has revisions).
CurrentSlug(db, article_id) == Row(db, Min(LatestRows(db, article_id))).slug

\* C1: every article that has revisions has them numbered 1..N without gaps
\* or repeats, exactly one is flagged latest, and it is revision N.
C1_ContiguousRevisionsOneLatest ==
    \A a \in ArticleIds(DB) :
        LET N == Cardinality(RowsOf(DB, a))
        IN N > 0 =>
            /\ Revisions(DB, a) = 1..N
            /\ Cardinality(LatestRows(DB, a)) = 1
            /\ \A i \in LatestRows(DB, a) : Row(DB, i).revision = N

C1_Witness ==
    /\ result.op = "update_article"
    /\ result.kind = "Ok"
    /\ result.revision = 3

\* C2: no two distinct articles have latest revisions holding the same
\* non-empty slug.
C2_LatestSlugsUnique ==
    \A i, j \in Indices(DB) :
        /\ Row(DB, i).latest
        /\ Row(DB, j).latest
        /\ Row(DB, i).article_id # Row(DB, j).article_id
        /\ Row(DB, i).slug # Empty
        => Row(DB, i).slug # Row(DB, j).slug

\* C3: at most one article has a latest revision whose slug is empty.
C3_OneFrontPage ==
    Cardinality({Row(DB, i).article_id :
                    i \in {j \in Indices(DB) : Row(DB, j).latest /\ Row(DB, j).slug = Empty}})
        <= 1

\* C4: update_article with a base_revision other than the article's latest
\* revision number returns a ConflictError carrying the latest revision and
\* leaves the tables as they were.
C4_StaleUpdateIsConflictError ==
    \A a \in ArticleIds(DB), base_revision \in 1..MaxRevisions, title \in Titles \ {Empty} :
        (RowsOf(DB, a) # {} /\ base_revision # LatestRevision(DB, a)) =>
            LET out == update_article(DB, a, base_revision, title, "none")
            IN /\ out.result.kind = "ConflictError"
               /\ out.result.revision = LatestRevision(DB, a)
               /\ out.db = DB

\* Two workers were given the same edit, update_article of one article from
\* one base_revision, one while the other was in flight, and both resolved.
SameEdit(v, w) ==
    /\ v # w
    /\ req[v].serial \in req[w].during
    /\ pc[v] = "idle" /\ pc[w] = "idle"
    /\ req[v].op = "update_article" /\ req[w].op = "update_article"
    /\ req[v].article_id = req[w].article_id
    /\ req[v].base_revision = req[w].base_revision
    /\ res[v].step # "statement" /\ res[w].step # "statement"

\* No article has two revisions with one revision number.
NoDuplicateRevision ==
    \A i, j \in Indices(DB) :
        (Row(DB, i).article_id = Row(DB, j).article_id
            /\ Row(DB, i).revision = Row(DB, j).revision) => i = j

\* C5: of two update_article calls for one article with one base_revision
\* given to the worker pool at most one commits, the other resolves to a
\* ConflictError, and no article ever has two revisions with one number.
C5_StaleWriterGetsConflictError ==
    /\ NoDuplicateRevision
    /\ \A v, w \in Workers :
        SameEdit(v, w) =>
            /\ ~(res[v].kind = "Ok" /\ res[w].kind = "Ok")
            /\ res[v].kind = "Ok" => res[w].kind = "ConflictError"

\* The part of C5 the code keeps: at most one of the two commits and revision
\* numbers stay unique.
C5_AtMostOneCommits ==
    /\ NoDuplicateRevision
    /\ \A v, w \in Workers :
        SameEdit(v, w) => ~(res[v].kind = "Ok" /\ res[w].kind = "Ok")


\* C6: a create_article or update_article that does not return Ok leaves both
\* tables exactly as they were, and in every state each allocated article has
\* a revision and each article with revisions has a latest one.
C6_FailureLeavesStoreUnchanged ==
    [][ /\ (result'.op \in {"create_article", "update_article"} /\ result'.kind # "Ok")
            => (articles' = articles /\ article_revisions' = article_revisions)
        /\ \A a \in ArticleIds(DBnext) : LatestRows(DBnext, a) # {} ]_vars

C6_Witness ==
    /\ result.op = "update_article"
    /\ result.kind = "Err"
    /\ result.step \in {"insert", "reread"}

\* C7: whenever some article's latest revision holds slug s, lookup_slug(s)
\* is Hit with that article's id and latest revision number.
C7_LatestSlugIsHit ==
    \A i \in Indices(DB) :
        Row(DB, i).latest =>
            lookup_slug(DB, Row(DB, i).slug) = Hit(Row(DB, i).article_id, Row(DB, i).revision)

\* C8 as stated: every slug an earlier revision of an article held, other than
\* the article's current slug, looks up as Redirect to the current slug, in
\* every later state.
C8_StaleSlugAlwaysRedirects ==
    \A i \in Indices(DB) :
        Row(DB, i).slug # CurrentSlug(DB, Row(DB, i).article_id) =>
            lookup_slug(DB, Row(DB, i).slug) = Redirect(CurrentSlug(DB, Row(DB, i).article_id))

\* C8 amended: a slug an earlier revision of article A held, other than A's
\* current slug, looks up as Redirect to A's current slug as long as the most
\* recently inserted revision holding that slug is one of A's.
C8_StaleSlugRedirectsUntilReused ==
    \A i \in Indices(DB) :
        (/\ Row(DB, i).slug # CurrentSlug(DB, Row(DB, i).article_id)
         /\ Row(DB, Max(SlugRows(DB, Row(DB, i).slug))).article_id = Row(DB, i).article_id)
        => lookup_slug(DB, Row(DB, i).slug) = Redirect(CurrentSlug(DB, Row(DB, i).article_id))

C8_Witness ==
    /\ result.op = "update_article"
    /\ result.kind = "Ok"
    /\ \E i \in Indices(DB) :
        /\ Row(DB, i).article_id = result.article_id
        /\ Row(DB, i).slug # result.slug
        /\ lookup_slug(DB, Row(DB, i).slug) = Redirect(result.slug)

\* C9: updating a freshly created article (slug s1) with a title that gives
\* it a different slug s2 leaves lookup_slug(s1) = Redirect(s2) and
\* lookup_slug(s2) = Hit(article, 2).
C9_RenameRedirects ==
    \A a \in ArticleIds(DB), title \in Titles \ {Empty} :
        Revisions(DB, a) = {1} =>
            LET s1 == CurrentSlug(DB, a)
                out == update_article(DB, a, 1, title, "none")
                s2 == out.result.slug
            IN (out.result.kind = "Ok" /\ s2 # s1) =>
                /\ lookup_slug(out.db, s1) = Redirect(s2)
                /\ lookup_slug(out.db, s2) = Hit(a, 2)

\* The slugs held by latest revisions of articles other than article_id.
OtherLatestSlugs(db, article_id) ==
    {Row(db, i).slug :
        i \in {j \in Indices(db) : Row(db, j).latest /\ Row(db, j).article_id # article_id}}

\* b for k = 1, b-k for k >= 2
Candidate(b, k) == IF k = 1 THEN b ELSE b \o <<"-">> \o Decimal(k)

BaseOf(title) == IF slugify(title) = Empty THEN ArticleFallback ELSE slugify(title)

\* slug is the first of b, b-2, b-3, .. that no other article's latest revision holds
FirstFree(db, article_id, b, slug) ==
    \E k \in 1..(Cardinality(OtherLatestSlugs(db, article_id)) + 1) :
        /\ slug = Candidate(b, k)
        /\ slug \notin OtherLatestSlugs(db, article_id)
        /\ \A m \in 1..(k - 1) : Candidate(b, m) \in OtherLatestSlugs(db, article_id)

\* C10: a slug derived from a title with base slug b is the first of b, b-2,
\* b-3, .. that no other article's latest revision holds, for create_article
\* without target slug and for update_article with a changed title whose base
\* slug is not the previous slug; two creations with one title, where b and
\* b-2 are free, give b and then b-2.
C10_Disambiguation ==
    \A title \in Titles \ {Empty} :
        LET b == BaseOf(title)
            first == create_article(DB, None, title, "none")
            second == create_article(first.db, None, title, "none")
        IN /\ first.result.kind = "Ok"
           /\ FirstFree(DB, first.result.article_id, b, first.result.slug)
           /\ ({b, Candidate(b, 2)} \cap OtherLatestSlugs(DB, 0) = {}
                 => first.result.slug = b /\ second.result.slug = Candidate(b, 2))
           /\ \A a \in ArticleIds(DB) :
                LET prev == Row(DB, Min(LatestRows(DB, a)))
                    out == update_article(DB, a, prev.revision, title, "none")
                IN (/\ prev.slug # Empty
                    /\ title # prev.title
                    /\ slugify(title) # prev.slug)
                   => /\ out.result.kind = "Ok"
                      /\ FirstFree(DB, a, b, out.result.slug)

C10_Witness ==
    /\ result.op = "create_article"
    /\ result.kind = "Ok"
    /\ result.slug = <<"a", "-", "3">>

\* The latest revision of an article that has revisions.
LatestRow(db, article_id) == Row(db, Min(LatestRows(db, article_id)))

\* C11: a successful update_article whose title is the title of the latest
\* revision gives the new revision exactly the previous latest slug.
C11_SameTitleKeepsSlug ==
    \A a \in ArticleIds(DB) :
        LET prev == LatestRow(DB, a)
            out == update_article(DB, a, prev.revision, prev.title, "none")
        IN /\ out.result.kind = "Ok"
           /\ out.result.slug = prev.slug
           /\ LatestRow(out.db, a).slug = prev.slug
           /\ LatestRow(out.db, a).revision = prev.revision + 1

\* An update that kept the title: the slug is one a fresh derivation from the
\* title would not give (the title slugifies to something else).
C11_Witness ==
    /\ result.op = "update_article"
    /\ result.kind = "Ok"
    /\ \E i, j \in RowsOf(DB, result.article_id) :
        /\ Row(DB, j).revision = result.revision
        /\ Row(DB, i).revision + 1 = result.revision
        /\ Row(DB, i).title = Row(DB, j).title
        /\ Row(DB, j).slug = result.slug
        /\ result.slug # slugify(Row(DB, j).title)
        /\ result.slug # Empty

\* The previous slugs decide_slug can be given in this store.
PrevSlugs(db) == {None} \cup {Some(s) : s \in StoredSlugs(db) \cup {Empty, <<"a">>}}

\* C12: decide_slug returns the empty slug only when it is given the empty
\* previous slug; without a previous slug it returns a non-empty slug for
\* every title; create_article stores an empty slug only for the target slug
\* "", and a later revision has the empty slug only if the one before had it.
C12_EmptySlugOnlyForFrontPage ==
    /\ \A a \in ArticleIds(DB) \cup {last_insert_rowid(DB)}, title \in Titles \ {Empty} :
            /\ decide_slug(DB, a, Empty, title, None) # Empty
            /\ \A prev_title \in {title, Empty}, prev_slug \in PrevSlugs(DB) :
                    decide_slug(DB, a, prev_title, title, prev_slug) = Empty
                        => prev_slug = Some(Empty)
    /\ \A target_slug \in Targets, title \in Titles \ {Empty} :
            create_article(DB, target_slug, title, "none").result.slug = Empty
                => target_slug = Some(Empty)
    /\ \A i \in Indices(DB) :
            (Row(DB, i).slug = Empty /\ Row(DB, i).revision > 1) =>
                \A j \in RevisionRows(DB, Row(DB, i).article_id, Row(DB, i).revision - 1) :
                    Row(DB, j).slug = Empty

\* A title that slugifies to nothing was stored, with the fallback slug.
C12_Witness ==
    /\ result.op = "create_article"
    /\ result.kind = "Ok"
    /\ result.slug = ArticleFallback
    /\ \E i \in Indices(DB) : slugify(Row(DB, i).title) = Empty /\ Row(DB, i).slug # Empty

\* C13: an article whose latest slug is empty keeps the empty slug through
\* every successful update_article, whatever the new title.
C13_FrontPageKeepsEmptySlug ==
    \A a \in ArticleIds(DB), title \in Titles \ {Empty} :
        LatestRow(DB, a).slug = Empty =>
            LET out == update_article(DB, a, LatestRow(DB, a).revision, title, "none")
            IN /\ out.result.kind = "Ok"
               /\ out.result.slug = Empty
               /\ LatestRow(out.db, a).slug = Empty

\* The front page was given a new title and kept the empty slug.
C13_Witness ==
    /\ result.op = "update_article"
    /\ result.kind = "Ok"
    /\ result.slug = Empty
    /\ \E i, j \in RowsOf(DB, result.article_id) :
        /\ Row(DB, j).revision = result.revision
        /\ Row(DB, i).revision + 1 = result.revision
        /\ Row(DB, i).title # Row(DB, j).title
        /\ slugify(Row(DB, j).title) # Empty

\* C14: create_article and update_article with an empty title return the
\* title error and leave both tables as they were, whatever the other
\* arguments and whatever the store would have done.
C14_EmptyTitleRejected ==
    /\ \A target_slug \in Targets, fail \in CreateFails :
            create_article(DB, target_slug, Empty, fail) = Outcome(DB, Err("title"))
    /\ \A a \in ArticleIds(DB) \cup {last_insert_rowid(DB)},
          base_revision \in 1..MaxRevisions, fail \in UpdateFails :
            update_article(DB, a, base_revision, Empty, fail) = Outcome(DB, Err("title"))
    /\ (result.kind = "Err" /\ result.step = "title") =>
            \A i \in Indices(DB) : Row(DB, i).title # Empty

C14_Witness ==
    /\ result.op = "update_article"
    /\ result.kind = "Err"
    /\ result.step = "title"
    /\ article_revisions # <<>>

\* The tables a reader can be given by its connection: the committed tables
\* when its query runs, or the view its open transaction already has.
ReaderViews ==
    {DB} \cup {conn[w].view : w \in {v \in Workers : req[v].op = "lookup_slug"
                                                       /\ pc[v] = "redirect"}}

\* Each article with revisions has exactly one latest revision in db.
OneLatestPerArticle(db) ==
    \A a \in ArticleIds(db) : Cardinality(LatestRows(db, a)) = 1

\* No slug is held by two latest revisions in db.
LatestSlugsUniqueIn(db) ==
    \A i, j \in Indices(db) :
        (Row(db, i).latest /\ Row(db, j).latest /\ Row(db, i).slug = Row(db, j).slug)
            => i = j

\* Some transaction is part-way through its writes.
WriteInFlight ==
    \E w \in Workers : pc[w] \in {"decide", "insert", "reread"}

\* C15: while create/update transactions are in flight, what a reader is
\* given never has an article with two latest revisions or with none, and
\* never two latest revisions holding the same slug.
C15_ReadersSeeNoIntermediateState ==
    \A db \in ReaderViews :
        /\ OneLatestPerArticle(db)
        /\ LatestSlugsUniqueIn(db)

\* The part of C15 that is about the transactions: readers are never given a
\* store in which an article has two latest revisions or none.
C15_ReadersSeeCommittedRevisions ==
    \A db \in ReaderViews : OneLatestPerArticle(db)

\* Connections checked out: the closures between get() and their return.
CheckedOut == {w \in Workers : pc[w] \notin {"idle", "get"}}

\* C16: each closure holds one connection from get() to its return, on every
\* exit path; the connections checked out never exceed the pool's size, and
\* when every call has resolved all of them are idle again.
C16_ConnectionsReturned ==
    /\ idle + Cardinality(CheckedOut) = max_size
    /\ idle \in 0..max_size
    /\ \A w \in Workers : conn[w] # NoTransaction => w \in CheckedOut
    /\ (\A w \in Workers : pc[w] = "idle") => idle = max_size

\* Every call has resolved, one by a panic and one with an error, and the
\* pool is full again.
C16_Witness ==
    /\ \A w \in Workers : pc[w] = "idle"
    /\ spawned = MaxCalls
    /\ \E w \in Workers : res[w].kind = "Panic"
    /\ \E w \in Workers : res[w].kind = "Err"
    /\ idle = max_size

\* The parts of a request path: what follows the leading '/', whether that is
\* a reserved path, its first segment as sent and decoded, and what follows.
Rest(path) == SubSeq(path, 2, Len(path))
IsReserved(path) == Rest(path) # <<>> /\ Rest(path)[1] = "_"
HasTrailing(path) == first_slash(Rest(path)) # 0
FirstSegment(path) ==
    IF HasTrailing(path) THEN SubSeq(Rest(path), 1, first_slash(Rest(path)) - 1) ELSE Rest(path)
Trailing(path) == SubSeq(Rest(path), first_slash(Rest(path)) + 1, Len(Rest(path)))
Decoded(path) == percent_decode(FirstSegment(path))
IsText(bytes) == \A i \in 1..Len(bytes) : bytes[i] # InvalidByte

\* C17: an article path of one segment whose decoded text is not its own
\* slugification gives the redirect resource to the slugification, without a
\* call of lookup_slug, whatever the store holds.
C17_NormalizingRedirect ==
    \A path \in Paths :
        (/\ ~IsReserved(path)
         /\ ~HasTrailing(path)
         /\ IsText(Decoded(path))
         /\ slugify(Decoded(path)) # Decoded(path))
        => \A query \in Queries, fail \in LookupFails :
              LET out == lookup(DB, path, query, fail)
              IN /\ out.kind = "ArticleRedirectResource"
                 /\ out.slug = slugify(Decoded(path))
                 /\ out.lookups = 0

\* A redirect given without a lookup, to a slug an article holds.
C17_Witness ==
    /\ result.op = "lookup"
    /\ result.kind = "ArticleRedirectResource"
    /\ result.lookups = 0
    /\ \E i \in Indices(DB) : Row(DB, i).latest /\ Row(DB, i).slug = result.slug

\* C18: for a canonical article path of one segment the resource follows the
\* answer of lookup_slug: Miss gives the new-article resource seeded with the
\* slug, Hit the article resource of that article and revision with the edit
\* flag set exactly for the query "edit", Redirect the redirect resource to
\* the slug returned; a failure of lookup_slug is an error.
C18_ResourceFollowsLookup ==
    \A path \in Paths :
        (/\ ~IsReserved(path)
         /\ ~HasTrailing(path)
         /\ IsText(Decoded(path))
         /\ slugify(Decoded(path)) = Decoded(path))
        => \A query \in Queries :
           LET slug == Decoded(path)
               x == lookup_slug(DB, slug)
               out == lookup(DB, path, query, "none")
           IN /\ out.lookups = 1
              /\ x.kind = "Miss" =>
                    out.kind = "NewArticleResource" /\ out.target_slug = Some(slug)
              /\ x.kind = "Hit" =>
                    /\ out.kind = "ArticleResource"
                    /\ out.article_id = x.article_id
                    /\ out.revision = x.revision
                    /\ out.edit = (query = Some(EditQuery))
              /\ x.kind = "Redirect" =>
                    out.kind = "ArticleRedirectResource" /\ out.slug = x.slug
              /\ x.kind \in {"Miss", "Hit", "Redirect"}
              /\ lookup(DB, path, query, "lookup_slug").kind = "Err"

\* The editor of an article's second revision was served.
C18_Witness ==
    /\ result.op = "lookup"
    /\ result.kind = "ArticleResource"
    /\ result.edit
    /\ result.lookups = 1
    /\ result.revision = 2

\* The paths C19 speaks of.
ReservedNames == {AssetsName, ChangesName, NewName, SitemapName}
NotFoundPath(path) ==
    IF ~IsReserved(path) THEN HasTrailing(path)
    ELSE \/ Decoded(path) \notin ReservedNames
         \/ Decoded(path) \in ReservedNames \ {AssetsName} /\ HasTrailing(path)
         \/ /\ Decoded(path) = AssetsName
            /\ HasTrailing(path)
            /\ \/ first_slash(Trailing(path)) # 0
               \/ percent_decode(Trailing(path)) \notin ASSETS_MAP

\* The segments lookup decodes are text: the first one and, below _assets,
\* the asset's name.
WellEncoded(path) ==
    /\ IsText(Decoded(path))
    /\ (IsReserved(path) /\ Decoded(path) = AssetsName /\ HasTrailing(path))
          => IsText(percent_decode(FirstSegment(<<"/">> \o Trailing(path))))

\* C19 as stated: every such path is answered with not-found, and no
\* reserved path leads to a call of lookup_slug.
C19_NotFoundForAllSuchPaths ==
    \A path \in Paths :
        /\ NotFoundPath(path) =>
              \A query \in Queries, fail \in LookupFails :
                  lookup(DB, path, query, fail) = NotFound
        /\ IsReserved(path) =>
              \A query \in Queries, fail \in LookupFails :
                  lookup(DB, path, query, fail).lookups = 0

\* C19, amended: such a path is answered with not-found when the segments
\* the dispatcher decodes are valid text, and with the decoding error when
\* they are not; no reserved path leads to a call of lookup_slug.
C19_NotFoundWhenWellEncoded ==
    \A path \in Paths :
        /\ NotFoundPath(path) =>
              \A query \in Queries, fail \in LookupFails :
                  lookup(DB, path, query, fail) =
                      IF WellEncoded(path) THEN NotFound ELSE Failed("utf8")
        /\ IsReserved(path) =>
              \A query \in Queries, fail \in LookupFails :
                  lookup(DB, path, query, fail).lookups = 0

\* Not-found was answered while the store holds an article.
C19_Witness ==
    /\ result.op = "lookup"
    /\ result.kind = "NotFound"
    /\ result.lookups = 0
    /\ article_revisions # <<>>

\* How the FTS reads a run of quoted strings separated by single spaces:
\* inside the quotes "" is one quote character and a single " ends the string.
RECURSIVE read_quoted(_, _, _, _, _)
read_quoted(s, i, inside, token, tokens) ==
    IF i > Len(s) THEN [ok |-> ~inside /\ tokens # <<>>, tokens |-> tokens]
    ELSE IF inside
    THEN IF s[i] # Quote THEN read_quoted(s, i + 1, TRUE, Append(token, s[i]), tokens)
         ELSE IF i < Len(s) /\ s[i + 1] = Quote
         THEN read_quoted(s, i + 2, TRUE, Append(token, Quote), tokens)
         ELSE read_quoted(s, i + 1, FALSE, <<>>, Append(tokens, token))
    ELSE IF s[i] = Quote /\ (i = 1 \/ s[i - 1] = " ")
    THEN read_quoted(s, i + 1, TRUE, <<>>, tokens)
    ELSE IF s[i] = " " /\ i > 1 /\ i < Len(s) /\ s[i - 1] = Quote
    THEN read_quoted(s, i + 1, FALSE, <<>>, tokens)
    ELSE [ok |-> FALSE, tokens |-> tokens]

QuotesIn(s) == Cardinality({i \in 1..Len(s) : s[i] = Quote})

\* C20: the query built from a text is "" for no token, "tok"* for one and
\* NEAR("t1" "t2" ...) for more; read back, its quoted strings are exactly
\* the whitespace-separated tokens of the text, and every quote of the text
\* appears doubled inside them.
C20_SearchQueryQuotesTokens ==
    fts_query # Empty =>
        LET tokens == split_whitespace(query_string)
            n == Len(fts_query)
        IN /\ Len(tokens) = 0 => fts_query = <<Quote, Quote>>
           /\ Len(tokens) = 1 =>
                /\ fts_query[n] = "*"
                /\ read_quoted(SubSeq(fts_query, 1, n - 1), 1, FALSE, <<>>, <<>>)
                      = [ok |-> TRUE, tokens |-> tokens]
           /\ Len(tokens) > 1 =>
                /\ SubSeq(fts_query, 1, 5) = NearOpen
                /\ fts_query[n] = ")"
                /\ read_quoted(SubSeq(fts_query, 6, n - 1), 1, FALSE, <<>>, <<>>)
                      = [ok |-> TRUE, tokens |-> tokens]
           /\ QuotesIn(fts_query) =
                2 * QuotesIn(query_string) + 2 * (IF tokens = <<>> THEN 1 ELSE Len(tokens))
           /\ \A i \in 1..Len(tokens) : \A j \in 1..Len(tokens[i]) :
                tokens[i][j] \notin WhiteSpace

\* A NEAR query was built from a text with a quote inside a token.
C20_Witness ==
    /\ Len(fts_query) > Len(NearOpen)
    /\ SubSeq(fts_query, 1, 5) = NearOpen
    /\ \E i \in 2..Len(query_string) - 1 :
        /\ query_string[i] = Quote
        /\ query_string[i - 1] \in {"a", "b"}

\* C21: get_article_slug gives nothing, and no error, for an article without
\* revisions, and otherwise the slug of the article's revision with the
\* greatest revision number.
C21_GetArticleSlug ==
    \A a \in articles \cup {0, last_insert_rowid(DB)} :
        IF RowsOf(DB, a) = {}
        THEN get_article_slug(DB, a) = None
        ELSE \E i \in RowsOf(DB, a) :
                /\ \A j \in RowsOf(DB, a) : Row(DB, j).revision <= Row(DB, i).revision
                /\ get_article_slug(DB, a) = Some(Row(DB, i).slug)

\* The slug of an article was read after the article had changed its slug.
C21_Witness ==
    /\ result.op = "get_article_slug"
    /\ result.kind = "Some"
    /\ \E i \in RowsOf(DB, result.article_id) :
        /\ ~Row(DB, i).latest
        /\ Row(DB, i).slug # result.slug

ReadOps == {"lookup_slug", "get_article_slug", "get_article_revision",
            "query_article_revision_stubs"}

\* What one step may do to the revisions: rows are kept in place, only the
\* latest flag of a row may change, only from true to false, and only for the
\* revision before the one a successful update_article has just inserted.
AppendOnly ==
    /\ Len(article_revisions') >= Len(article_revisions)
    /\ \A i \in 1..Len(article_revisions) :
        LET old == article_revisions[i]
            new == article_revisions'[i]
        IN /\ [new EXCEPT !.latest = old.latest] = old
           /\ new.latest => old.latest
           /\ (old.latest /\ ~new.latest) =>
                /\ Len(article_revisions') = Len(article_revisions) + 1
                /\ article_revisions'[Len(article_revisions')].article_id = old.article_id
                /\ article_revisions'[Len(article_revisions')].revision = old.revision + 1
                /\ result'.op = "update_article"
                /\ result'.kind = "Ok"
    /\ (result' # result /\ result'.op \in ReadOps) => UNCHANGED store
    /\ <<query_string, fts_query>>' # <<query_string, fts_query>> => UNCHANGED store

\* C22: revisions are append-only, and the reads change nothing.
C22_AppendOnly == [][AppendOnly]_vars

\* An update has superseded a revision while another article's latest
\* revision has the same revision number, and a search was made.
C22_Witness ==
    /\ result.op = "update_article"
    /\ result.kind = "Ok"
    /\ fts_query # Empty
    /\ \E i, j \in Indices(DB) :
        /\ Row(DB, i).article_id = result.article_id
        /\ Row(DB, i).revision + 1 = result.revision
        /\ ~Row(DB, i).latest
        /\ Row(DB, j).article_id # result.article_id
        /\ Row(DB, j).revision = Row(DB, i).revision
        /\ Row(DB, j).latest

\* C23: whenever lookup_slug answers a slug with a redirect, the target is
\* another slug, and lookup_slug answers the target with a hit in the same
\* state.
C23_SingleHopRedirect ==
    \A s \in StoredSlugs(DB) \cup {Unused} :
        LET first == lookup_slug(DB, s)
        IN first.kind = "Redirect" =>
            /\ first.slug # s
            /\ lookup_slug(DB, first.slug).kind = "Hit"

\* The part of C23 that the unchecked target slug leaves standing: a redirect
\* never leads back to the slug asked for, and never to a slug nobody has.
C23_RedirectLeadsElsewhere ==
    \A s \in StoredSlugs(DB) \cup {Unused} :
        LET first == lookup_slug(DB, s)
        IN first.kind = "Redirect" =>
            /\ first.slug # s
            /\ lookup_slug(DB, first.slug).kind \in {"Hit", "Redirect"}

\* An article has just been created through a new-article resource that the
\* dispatcher seeded with a non-empty slug.
SeededCreate ==
    /\ result.op = "create_article"
    /\ result.kind = "Ok"
    /\ result.target_slug # None
    /\ result.target_slug # Some(Empty)

SeededSlug == result.target_slug[1]
CreatedTitle == article_revisions[Len(article_revisions)].title

\* The tables the creation found, with the new article id allocated.
BeforeInsert ==
    [articles |-> articles,
     article_revisions |-> SubSeq(article_revisions, 1, Len(article_revisions) - 1)]

\* The slug the loop of decide_slug derives from the title alone.
DerivedSlug ==
    LET base_slug == slugify(CreatedTitle)
        fallback == IF base_slug = Empty THEN ArticleFallback ELSE base_slug
    IN disambiguate(BeforeInsert, result.article_id, fallback, fallback, 1)

\* The slug of an article created with a target slug s and a title T is s
\* when slugify(T) = s, and otherwise the slug derived from T alone.
SeededSlugRule ==
    result.slug = IF slugify(CreatedTitle) = SeededSlug THEN SeededSlug ELSE DerivedSlug

\* C24 as stated: the slug follows the rule, and after a Miss on s and the
\* creation through the seeded resource, lookup_slug(s) is a hit on the new
\* article only when slugify(T) = s.
C24_HitOnlyWhenTitleSlugifiesToTarget ==
    SeededCreate =>
        /\ SeededSlugRule
        /\ lookup_slug(DB, SeededSlug) = Hit(result.article_id, result.revision)
            => slugify(CreatedTitle) = SeededSlug

\* C24: the slug follows the rule, and lookup_slug(s) is a hit on the new
\* article exactly when the slug the article was given is s, which is also
\* the case when the slug derived from the title happens to be s.
C24_HitExactlyWhenSlugIsTarget ==
    SeededCreate =>
        /\ SeededSlugRule
        /\ lookup_slug(DB, SeededSlug) = Hit(result.article_id, result.revision)
            <=> result.slug = SeededSlug

\* An article whose title does not slugify to the seeded slug was given that
\* slug by the loop, and lookup_slug of the seeded slug is a hit on it.
C24_Witness ==
    /\ SeededCreate
    /\ slugify(CreatedTitle) # SeededSlug
    /\ result.slug = SeededSlug
    /\ lookup_slug(DB, SeededSlug) = Hit(result.article_id, result.revision)

\* The revisions flagged latest.
AllLatestRows(db) == {i \in Indices(db) : Row(db, i).latest}

\* The slug the loop of decide_slug starts from for a title.
LoopBase(title) == IF slugify(title) = Empty THEN ArticleFallback ELSE slugify(title)

\* With n revisions flagged latest the loop makes at most n + 1 slug-in-use
\* checks, for every title, for every article and for a new one, and the
\* slug it returns is free.
C25_LoopBound ==
    \A title \in Titles, a \in articles \cup {last_insert_rowid(DB)} :
        /\ slug_in_use_checks(DB, a, LoopBase(title), LoopBase(title), 1)
            <= Cardinality(AllLatestRows(DB)) + 1
        /\ ~slug_in_use(DB, a, disambiguate(DB, a, LoopBase(title), LoopBase(title), 1))

\* Under SpecPoolFair every call given to a worker ends, with a value, an
\* error or the panic of the stale update.
C25_SpawnedCallsEnd == \A w \in Workers : (pc[w] # "idle") ~> (pc[w] = "idle")

\* C25: the loop of decide_slug makes at most n + 1 checks with n revisions
\* flagged latest, and every create_article and update_article call completes
\* with a result or an error.
C25_CallsComplete ==
    /\ C25_LoopBound
    /\ result.op \in {"create_article", "update_article"} => result.kind \in {"Ok", "Err"}

\* The part of C25 that the missing conflict answer leaves standing: the loop
\* is bounded, and the only call that ends without a result or an error is
\* the update whose base_revision is not the latest revision.
C25_CallsCompleteUnlessStale ==
    /\ C25_LoopBound
    /\ result.op \in {"create_article", "update_article"} =>
        \/ result.kind \in {"Ok", "Err"}
        \/ result.op = "update_article" /\ result.kind = "Panic"

====
